---- MODULE Spec2Model ----
(***************************************************************************)
(* Model of src/trie.rs: ElementaryTrie, a trie whose nodes                *)
(* (ElementaryElement) hold an optional payload and a map from key         *)
(* element to child node.  The two operations of the Trie trait, get and   *)
(* insert, are the actions of the model.                                   *)
(*                                                                         *)
(* An Option<V> is modelled as a sequence of length at most one:           *)
(* None is <<>> and Some(v) is <<v>>.  A HashMap<KE, Element> is a         *)
(* function whose domain is the set of keys present in the map.            *)
(***************************************************************************)
EXTENDS Integers, Sequences, FiniteSets, TLC

\* Longest key (number of elements) passed to get and insert.
MaxKeyLen == 2

\* Number of calls (get or insert) made on the trie in a run.
MaxOps == 3

\* The key elements (KE) the keys are made of.
Elems == {"a", "b"}

Keys == UNION {[1..n -> Elems] : n \in 0..MaxKeyLen}

None == <<>>
Some(v) == <<v>>

VARIABLES
    root,   \* ElementaryTrie.root: the tree of elements
    hist,   \* the insert calls made so far, oldest first: [key, value]
    op,     \* the last call: "new", "get" or "insert"
    key,    \* the key of the last call
    value,  \* the value argument of the last call (None for new and get)
    ret,    \* what the last call returned
    calls   \* the number of calls made so far

vars == <<root, hist, op, key, value, ret, calls>>

----------------------------------------------------------------------------
(* The code *)

\* A slip in new_elementary_element: the fresh element carries a payload.
NewElementWithPayload == [value |-> Some(0), children |-> <<>>]

\* new_elementary_element: no payload, no children.
NewElementaryElement == [value |-> None, children |-> <<>>]

\* ElementaryTrie::new
New == NewElementaryElement

\* A slip for entry(k).or_insert(default): HashMap::insert(k, default), which
\* replaces an existing child.
EntryOverwrite(children, k, default) ==
    [e \in DOMAIN children \cup {k} |-> IF e = k THEN default ELSE children[e]]

\* HashMap::entry(k).or_insert(default): the map with k present; an existing
\* entry is kept.
EntryOrInsert(children, k, default) ==
    IF k \in DOMAIN children THEN children ELSE children @@ (k :> default)


\* get_or_create_element: the element after the descent has created the
\* missing part of the path of k.  The reference the code returns is the
\* element at path k of the result (ElementAt).
RECURSIVE GetOrCreateElement(_, _)
GetOrCreateElement(element, k) ==
    IF k # <<>>
    THEN LET e == Head(k)
             children == EntryOrInsert(element.children, e, NewElementaryElement)
         IN  [element EXCEPT !.children =
                 [children EXCEPT ![e] = GetOrCreateElement(children[e], Tail(k))]]
    ELSE element

\* The element a path of existing children leads to.
RECURSIVE ElementAt(_, _)
ElementAt(element, path) ==
    IF path = <<>> THEN element
    ELSE ElementAt(element.children[Head(path)], Tail(path))

\* A slip in the payload swap: the payload is written into every element the
\* descent passes through, not only the last one.
RECURSIVE SetValueAlongPath(_, _, _)
SetValueAlongPath(element, path, v) ==
    IF path = <<>> THEN [element EXCEPT !.value = v]
    ELSE [element EXCEPT !.value = v,
                         !.children[Head(path)] =
             SetValueAlongPath(element.children[Head(path)], Tail(path), v)]

\* Assignment through the reference to the element at an existing path.
RECURSIVE SetValueAt(_, _, _)
SetValueAt(element, path, v) ==
    IF path = <<>> THEN [element EXCEPT !.value = v]
    ELSE [element EXCEPT !.children[Head(path)] =
             SetValueAt(element.children[Head(path)], Tail(path), v)]

\* A slip in get: a missing child ends the walk with the payload of the last
\* element reached instead of None.
RECURSIVE GetStopsAtLast(_, _)
GetStopsAtLast(element, k) ==
    IF k = <<>> THEN element.value
    ELSE IF Head(k) \in DOMAIN element.children
         THEN GetStopsAtLast(element.children[Head(k)], Tail(k))
         ELSE element.value

\* Trie::get: walk the children, fail at the first missing one, else the
\* payload of the element reached.
RECURSIVE Get(_, _)
Get(element, k) ==
    IF k = <<>> THEN element.value
    ELSE IF Head(k) \in DOMAIN element.children
         THEN Get(element.children[Head(k)], Tail(k))
         ELSE None

\* A slip in insert: the result is taken before the swap, so it is the new
\* payload.
InsertReturnsNew(self, k, v) ==
    LET created == GetOrCreateElement(self, k)
    IN  [root |-> SetValueAt(created, k, Some(v)), ret |-> Some(v)]

\* A slip in insert: an occupied payload slot is taken (left empty) instead
\* of swapped.
InsertTakes(self, k, v) ==
    LET created == GetOrCreateElement(self, k)
        alt     == ElementAt(created, k).value
    IN  [root |-> SetValueAt(created, k, IF alt = None THEN Some(v) ELSE None),
         ret |-> alt]

\* Trie::insert: descend-or-create, then swap the payload with Some(value);
\* the result is the trie afterwards and the payload swapped out.
Insert(self, k, v) ==
    LET created == GetOrCreateElement(self, k)
        alt     == ElementAt(created, k).value
    IN  [root |-> SetValueAt(created, k, Some(v)), ret |-> alt]

\* A slip in get: the lookup descends with get_or_create_element.
SelfAfterGetCreates(self, k) == GetOrCreateElement(self, k)

\* The trie after get(k): get borrows the trie immutably.
SelfAfterGet(self, k) == self

----------------------------------------------------------------------------
(* The state machine *)

Init ==
    /\ root = New
    /\ hist = <<>>
    /\ op = "new"
    /\ key = <<>>
    /\ value = None
    /\ ret = None
    /\ calls = 0

\* The payload an insert passes.  V is an unconstrained type parameter, so
\* the code cannot inspect a payload; every insert passes one that no earlier
\* insert passed, which makes any confusion of two payloads visible.
FreshValue(h) == Len(h) + 1

InsertCall ==
    \E k \in Keys, v \in {FreshValue(hist)} :
        /\ calls < MaxOps
        /\ calls' = calls + 1
        /\ root' = Insert(root, k, v).root
        /\ ret' = Insert(root, k, v).ret
        /\ hist' = Append(hist, [key |-> k, value |-> v])
        /\ op' = "insert"
        /\ key' = k
        /\ value' = Some(v)

GetCall ==
    \E k \in Keys :
        /\ calls < MaxOps
        /\ calls' = calls + 1
        /\ root' = SelfAfterGet(root, k)
        /\ ret' = Get(root, k)
        /\ op' = "get"
        /\ key' = k
        /\ value' = None
        /\ UNCHANGED hist

Next == InsertCall \/ GetCall

Spec == Init /\ [][Next]_vars

----------------------------------------------------------------------------
(* Observations of the tree and of the calls made *)

\* The existing nodes, each named by the element path from the root to it.
RECURSIVE Nodes(_)
Nodes(element) ==
    {<<>>} \cup UNION {{<<e>> \o p : p \in Nodes(element.children[e])} :
                          e \in DOMAIN element.children}

\* The payload slot of an existing node.
ValueAt(element, path) == ElementAt(element, path).value

\* The node at the path has no children.
IsLeaf(element, path) == DOMAIN ElementAt(element, path).children = {}

Prefixes(k) == {SubSeq(k, 1, n) : n \in 0..Len(k)}
IsPrefix(p, k) == Len(p) <= Len(k) /\ SubSeq(k, 1, Len(p)) = p
IsStrictPrefix(p, k) == IsPrefix(p, k) /\ p # k

Front(h) == SubSeq(h, 1, Len(h) - 1)
InsertedKeys(h) == {h[i].key : i \in DOMAIN h}

\* The reference map: the value of the most recent insert of h whose key is
\* exactly k, absent if there is none.
RefGet(h, k) ==
    LET at == {i \in DOMAIN h : h[i].key = k}
    IN  IF at = {} THEN None
        ELSE Some(h[CHOOSE i \in at : \A j \in at : j <= i].value)

\* The trie that new() followed by the inserts of h, in order, produces.
RECURSIVE Build(_)
Build(h) ==
    IF h = <<>> THEN New
    ELSE Insert(Build(Front(h)), h[Len(h)].key, h[Len(h)].value).root

\* The permutations of 1..n, for every number n of inserts in a run.
Perms == [n \in 0..MaxOps |->
             {f \in [1..n -> 1..n] : \A i, j \in 1..n : f[i] = f[j] => i = j}]

\* The inserts of h in the order f: position i holds insert f[i] of h.
Permute(h, f) == [i \in 1..Len(h) |-> h[f[i]]]

\* f keeps the relative order of the inserts of h that share a key.
KeepsKeyOrder(h, f) ==
    \A i, j \in 1..Len(h) :
        (i < j /\ h[f[i]].key = h[f[j]].key) => f[i] < f[j]

\* The tries built by the reorderings of h that keep the relative order of
\* the inserts with the same key.
Reorderings(h) ==
    {Build(Permute(h, f)) : f \in {g \in Perms[Len(h)] : KeepsKeyOrder(h, g)}}

\* The length of the longest prefix of k whose node exists.
LongestExisting(element, k) ==
    CHOOSE m \in 0..Len(k) :
        /\ SubSeq(k, 1, m) \in Nodes(element)
        /\ \A n \in (m+1)..Len(k) : SubSeq(k, 1, n) \notin Nodes(element)

----------------------------------------------------------------------------
(* The claims *)

\* C1: after any sequence of inserts, get(k) is the value of the most recent
\* insert with exactly key k, and absent if there is none, for every key k
\* (prefixes and extensions of inserted keys included); a get call returns
\* just that.
C1_GetIsReferenceMap ==
    /\ \A k \in Keys : Get(root, k) = RefGet(hist, k)
    /\ op = "get" => ret = RefGet(hist, key)

\* A get of a key never inserted, lying strictly between two inserted keys
\* (one a strict prefix of it, one a strict extension), returned absent.
C1_Witness ==
    /\ op = "get"
    /\ ret = None
    /\ \E i, j \in DOMAIN hist :
           IsStrictPrefix(hist[i].key, key) /\ IsStrictPrefix(key, hist[j].key)

\* C2: insert(k, v) returns the value of the most recent earlier insert with
\* exactly key k, absent if there is none, and right after it get(k) is v.
C2_InsertReturnsPrevious ==
    op = "insert" =>
        /\ hist # <<>>
        /\ hist[Len(hist)].key = key
        /\ Some(hist[Len(hist)].value) = value
        /\ ret = RefGet(Front(hist), key)
        /\ Get(root, key) = value

\* An insert replaced a different value.
C2_Witness ==
    /\ op = "insert"
    /\ ret # None
    /\ ret # value
    /\ Get(root, key) = value

\* C3: insert(k, v) leaves get(k2) unchanged for every key k2 other than k.
C3_InsertIsolatesOtherKeys ==
    [][op' = "insert" =>
          \A k2 \in Keys \ {key'} : Get(root', k2) = Get(root, k2)]_vars

\* An insert whose key has a strict prefix (the root), an inserted strict
\* extension and an inserted sibling.
C3_Witness ==
    /\ op = "insert"
    /\ key # <<>>
    /\ \E i, j \in DOMAIN Front(hist) :
           /\ IsStrictPrefix(key, hist[i].key)
           /\ ~IsPrefix(key, hist[j].key)
           /\ ~IsPrefix(hist[j].key, key)
           /\ Get(root, hist[i].key) # None
           /\ Get(root, hist[j].key) # None

\* C4: after insert(k, v), get(k) is v and every strict prefix of k that was
\* never inserted is a node with absent payload, so that get of it is absent.
C4_IntermediateNodesEmpty ==
    op = "insert" =>
        /\ Get(root, key) = value
        /\ \A p \in Prefixes(key) \ (InsertedKeys(hist) \cup {key}) :
               /\ p \in Nodes(root)
               /\ ValueAt(root, p) = None
               /\ Get(root, p) = None

\* The orphan scenario: only the empty key was inserted before, then a key of
\* two elements, whose one-element prefix is a node created by this insert.
C4_Witness ==
    /\ op = "insert"
    /\ Len(key) = 2
    /\ Len(hist) >= 2
    /\ \A i \in DOMAIN Front(hist) : hist[i].key = <<>>
    /\ Get(root, <<>>) # None
    /\ Get(root, SubSeq(key, 1, 1)) = None

\* C5, the trie of new(): a root with absent payload and no children, get of
\* every key absent.
C5_NewIsEmpty ==
    /\ root.value = None
    /\ DOMAIN root.children = {}
    /\ \A k \in Keys : Get(root, k) = None

\* C5, the inserts: insert([], v) creates no node, makes get([]) return v and
\* changes get of no non-empty key; an insert of a non-empty key leaves
\* get([]) unchanged.
C5_EmptyKeyStep ==
    /\ (op' = "insert" /\ key' = <<>>) =>
           /\ Nodes(root') = Nodes(root)
           /\ Get(root', <<>>) = value'
           /\ \A k \in Keys \ {<<>>} : Get(root', k) = Get(root, k)
    /\ (op' = "insert" /\ key' # <<>>) =>
           Get(root', <<>>) = Get(root, <<>>)

\* C5: the empty key is a valid key, stored at the root and independent of
\* every non-empty key.
C5_EmptyKeyAtRoot == C5_NewIsEmpty /\ [][C5_EmptyKeyStep]_vars

\* insert([], v) on a trie that holds a non-empty key.
C5_Witness ==
    /\ op = "insert"
    /\ key = <<>>
    /\ Get(root, <<>>) = value
    /\ \E i \in DOMAIN hist : hist[i].key # <<>> /\ Get(root, hist[i].key) # None

\* C6: in a run of inserts only, every reordering of the inserts that keeps
\* the relative order of the inserts with the same key builds a trie with the
\* same get(k) for every key k and the same set of nodes.  (Two inserts with
\* different keys commute: swap the last two of the run.)
C6_InsertionOrderIrrelevant ==
    calls = Len(hist) =>
        \A other \in Reorderings(hist) :
            /\ \A k \in Keys : Get(other, k) = Get(root, k)
            /\ Nodes(other) = Nodes(root)

\* Three inserts: one key twice with different values, and a strict extension
\* or strict prefix of it in between or around.
C6_Witness ==
    /\ calls = 3
    /\ Len(hist) = 3
    /\ \E i, j, l \in DOMAIN hist :
           /\ i < j
           /\ hist[i].key = hist[j].key
           /\ hist[i].value # hist[j].value
           /\ IsStrictPrefix(hist[i].key, hist[l].key)

\* C7: get(k) leaves the trie as it was: the same nodes, the same children
\* and the same payloads, also when the walk stops at a missing child.
C7_GetDoesNotMutate ==
    [][op' = "get" =>
          /\ root' = root
          /\ Nodes(root') = Nodes(root)
          /\ \A p \in Nodes(root) : ValueAt(root', p) = ValueAt(root, p)]_vars

\* A get whose walk passed an existing child and then stopped at a missing
\* one; no node for the key exists afterwards.
C7_Witness ==
    /\ op = "get"
    /\ ret = None
    /\ Len(key) = 2
    /\ SubSeq(key, 1, 1) \in Nodes(root)
    /\ key \notin Nodes(root)

\* C8: insert(k, v) adds exactly the nodes of the prefixes of k longer than
\* m, the length of the longest prefix of k whose node existed, that is
\* len(k) - m nodes; it removes no node and changes no payload other than
\* the one at the node of k.
C8_InsertGrowth ==
    [][op' = "insert" =>
          LET m == LongestExisting(root, key')
          IN  /\ Cardinality(Nodes(root')) = Cardinality(Nodes(root)) + Len(key') - m
              /\ Nodes(root') \ Nodes(root) =
                     {SubSeq(key', 1, n) : n \in (m+1)..Len(key')}
              /\ Nodes(root) \subseteq Nodes(root')
              /\ \A p \in Nodes(root) \ {key'} :
                     ValueAt(root', p) = ValueAt(root, p)]_vars

\* An insert of a two-element key of which only the first element's node
\* existed: one node added, next to an existing sibling.
C8_Witness ==
    /\ op = "insert"
    /\ Len(key) = 2
    /\ key \notin InsertedKeys(Front(hist))
    /\ \E i \in DOMAIN Front(hist) :
           Len(hist[i].key) = 2 /\ hist[i].key[1] = key[1]
    /\ Cardinality(Nodes(root)) = 4

\* C9, in a state: a node's payload is present exactly if its path is the key
\* of some insert made so far.
C9_PayloadIffInserted ==
    \A p \in Nodes(root) : ValueAt(root, p) # None <=> p \in InsertedKeys(hist)

\* C9: the payload of a node is present iff its exact path was inserted, and
\* a payload once present stays present in every later state.
C9_PayloadPresence ==
    /\ []C9_PayloadIffInserted
    /\ [][\A p \in Nodes(root) :
              ValueAt(root, p) # None =>
                  p \in Nodes(root') /\ ValueAt(root', p) # None]_vars

\* A key inserted twice (its payload replaced, still present) below a node
\* that was never inserted and has no payload.
C9_Witness ==
    /\ \E i, j \in DOMAIN hist :
           i < j /\ hist[i].key = hist[j].key /\ Len(hist[i].key) = 2
                 /\ ValueAt(root, hist[i].key) = Some(hist[j].value)
    /\ \E p \in Nodes(root) : p # <<>> /\ ValueAt(root, p) = None

\* C10: the nodes are exactly the root (the empty prefix) and the prefixes of
\* the keys inserted so far; a childless node other than the root holds a
\* payload, and a node with neither payload nor children is the root of a
\* trie into which nothing was inserted.
C10_NodesArePrefixes ==
    /\ Nodes(root) = {<<>>} \cup UNION {Prefixes(k) : k \in InsertedKeys(hist)}
    /\ \A p \in Nodes(root) :
           /\ (p # <<>> /\ IsLeaf(root, p)) => ValueAt(root, p) # None
           /\ (ValueAt(root, p) = None /\ IsLeaf(root, p)) =>
                  (p = <<>> /\ hist = <<>>)

\* After inserts and a get of a missing key: two inserted keys, an internal
\* node that was never inserted, and the key of the get has no node.
C10_Witness ==
    /\ op = "get"
    /\ key \notin Nodes(root)
    /\ Cardinality(InsertedKeys(hist)) = 2
    /\ \E p \in Nodes(root) : p # <<>> /\ p \notin InsertedKeys(hist)

====
